---- MODULE Spec2Model ----
(***************************************************************************)
(* Ingest-to-playback pipeline of the streaming service: chunked upload    *)
(* (StorageService / upload endpoint), the process_video orchestration     *)
(* (VideoProcessor), cancel, chunk composition (LocalService) and the     *)
(* cleanup job (CleanupWorker).                                            *)
(*                                                                         *)
(* Concurrency is cooperative (asyncio).  A step of the model is the code  *)
(* a task runs between two points where it really suspends: the aiofiles   *)
(* reads and writes of LocalService, subprocesses and HTTP calls.          *)
(* LocalService.delete_directory, delete_metadata, combine_chunks and      *)
(* get_file_url contain no await and therefore run inside the step that    *)
(* calls them.                                                             *)
(*                                                                         *)
(* VideoProcessor, Transcoder, ChunkWorker and CleanupWorker (which also   *)
(* calls list_directories, delete_directory and delete_metadata) call      *)
(* save_metadata,                                                          *)
(* save_file, get_file, get_file_url and combine_chunks on StorageService.  *)
(* The facade class does not define them; the StorageService_* operators   *)
(* model them as the thin pass-throughs to the backend that the            *)
(* specification describes (section 4.2).                                  *)
(***************************************************************************)
EXTENDS Integers, Sequences, FiniteSets, TLC

VARIABLES
    meta,      \* metadata/{id}.json : function from the ids that have a document to the document;
               \* updated_at is "recent", or "old" once stall_hours have passed since it was written
    blobs,     \* raw storage: function from the paths of the files that exist to their content
    dirs,      \* ids v whose directory videos/{v} exists
    issued,    \* ids handed out by initialize_upload (uuid4 never repeats)
    events,    \* messages handed to the event bus (publisher.publish), acknowledged or not
    uploads,   \* upload_chunk endpoint calls in flight, in order of arrival
    runs,      \* process_video tasks in flight, in order of creation
    cancels,   \* cancel_upload calls that passed the owner check, in flight or returned
    finals,    \* finalize_upload calls in flight
    janitor,   \* the run_cleanup_job task: its position, the ids it listed, the directory it failed on
    client     \* a caller of the storage service: its last call, what the call returned, what it wrote last

vars == <<meta, blobs, dirs, issued, events, uploads, runs, cancels, finals, janitor, client>>

----------------------------------------------------------------------------
\* Bounds of the model

MaxVideos == 1        \* ids that initialize_upload may hand out
MaxChunks == 2        \* largest total_chunks a client declares
MaxReceived == 3      \* upload_chunk is not called on a document whose chunks_received reached this
MaxInFlight == 2      \* calls and tasks that are in flight at the same time
MaxComposeChunks == 11 \* largest total_chunks in the composition check
MaxByte == 1          \* chunk bytes are drawn from 0..MaxByte
MaxCancels == 1       \* cancel_upload calls that pass the owner check

VideoIds == 1..MaxVideos
\* user_id arguments: the record's owner, another user, and None
Callers == {"owner", "other", "nobody"}
\* chunk payloads a client sends
Payloads == {<<b>> : b \in 0..MaxByte}
OnePayload == {<<0>>}
\* chunk_index and total_chunks form fields: any integer is accepted by the
\* endpoint, the model offers the values around the valid range
ChunkIndices == -1..MaxChunks
ChunkTotals == 0..MaxChunks

----------------------------------------------------------------------------
\* Paths.  A path is <<d, kind, i>>: the file of that kind and index under
\* videos/{d}/.  Directory 0 is the literal directory videos/hls.

ChunkPath(v, i) == <<v, "chunk", i>>        \* videos/{v}/chunks/chunk_{i}
OutputPath(v) == <<v, "source", 0>>         \* videos/{v}/{basename(filename)}
ThumbnailPath(v) == <<v, "thumbnail", 0>>   \* videos/{v}/thumbnail.jpg
ThumbPath(v, i) == <<v, "thumbnails", i>>   \* videos/{v}/thumbnails/thumbnail_{i}.jpg
HlsMasterPath(v) == <<v, "hls", 0>>         \* videos/{v}/hls/master.m3u8
HlsVariantPath(v) == <<v, "hls", 1>>        \* videos/{v}/hls/{quality}.m3u8
DashMpdPath(v) == <<v, "dash", 0>>          \* videos/{v}/dash/manifest.mpd

\* the files under videos/{v}/
Under(v) == {p \in DOMAIN blobs : p[1] = v}
\* the files under videos/{v}/{sub}/
UnderSub(v, sub) == {p \in DOMAIN blobs : p[1] = v /\ p[2] = sub}

\* dictionary / directory update
Put(f, k, x) == [y \in DOMAIN f \cup {k} |-> IF y = k THEN x ELSE f[y]]
Drop(f, ks) == [y \in DOMAIN f \ ks |-> f[y]]
\* number of calls and tasks in flight; a cancel_upload call that returned
\* stays in cancels with pc "deleted"
InFlight == Len(uploads) + Len(runs) + Len(finals)
            + Cardinality({c \in DOMAIN cancels : cancels[c].pc = "delete"})

\* a sequence without its element at position s
Remove(q, s) == [j \in 1..(Len(q) - 1) |-> IF j < s THEN q[j] ELSE q[j + 1]]

----------------------------------------------------------------------------
\* LocalService primitives (the facade passes them through)

\* a save_file that opens the file for appending
SaveFileAppend(b, p, content) ==
    Put(b, p, IF p \in DOMAIN b THEN b[p] \o content ELSE content)

\* LocalService.save_file: makedirs(parent), then open(path, "wb"), which
\* truncates, and write
SaveFile(b, p, content) == Put(b, p, content)

\* a delete_directory that removes the chunk scratch only
DeleteChunksOnly(b, v) == Drop(b, {p \in DOMAIN b : p[1] = v /\ p[2] = "chunk"})

\* LocalService.delete_directory("videos/{v}"): rmtree
DeleteDirectory(b, v) == Drop(b, {p \in DOMAIN b : p[1] = v})

\* LocalService.delete_directory("videos/{v}/{sub}")
DeleteSubDirectory(b, v, sub) == Drop(b, {p \in DOMAIN b : p[1] = v /\ p[2] = sub})

\* LocalService.delete_metadata: remove the document, missing is success
DeleteMetadata(m, v) == Drop(m, {v})

\* LocalService.save_metadata: write metadata/{v}.json
SaveMetadata(m, v, doc) == Put(m, v, doc)

\* LocalService.file_exists / the os.path.exists tests
FileExists(b, p) == p \in DOMAIN b

\* StorageService.save_metadata: pass-through to the backend
StorageService_save_metadata(m, v, doc) == SaveMetadata(m, v, doc)

\* StorageService.save_file: pass-through to the backend
StorageService_save_file(b, p, content) == SaveFile(b, p, content)

\* StorageService.get_file returns the file; FALSE when the backend raises
\* because the file does not exist
StorageService_get_file(b, p) == FileExists(b, p)

\* StorageService.get_file_url returns a URL; FALSE when the backend raises
\* because the file does not exist
StorageService_get_file_url(b, p) == FileExists(b, p)

----------------------------------------------------------------------------
\* StorageService.initialize_upload: the document it creates
NewMetadata ==
    [status |-> "pending", owner_id |-> "owner", upload_progress |-> 0,
     chunks_received |-> 0, total_chunks |-> 0, output_path |-> "none",
     error |-> "none", updated_at |-> "recent",
     thumbnail_url |-> "none", hls_url |-> "none", dash_url |-> "none",
     playback_url |-> "none"]

\* a progress that is capped at 100
ProgressCapped(received, total) ==
    IF received >= total THEN 100 ELSE (received * 100) \div total

\* (chunks_received / total_chunks) * 100, kept as a whole percentage; for
\* total_chunks below 100 it is 100 exactly when the two are equal
Progress(received, total) == (received * 100) \div total

\* no cleanup job is running
\* a caller of the storage service that has made no call
ClientIdle ==
    [op |-> "none", key |-> <<>>, result |-> "none", document |-> <<"none", "">>,
     content |-> <<>>, docs |-> <<>>, files |-> <<>>]

JanitorIdle == [pc |-> "idle", ids |-> {}, failed |-> {}]

Init ==
    /\ meta = <<>>
    /\ blobs = <<>>
    /\ dirs = {}
    /\ issued = {}
    /\ events = {}
    /\ uploads = <<>>
    /\ runs = <<>>
    /\ cancels = <<>>
    /\ finals = <<>>
    /\ janitor = JanitorIdle
    /\ client = ClientIdle

\* StorageService.initialize_upload
InitializeUpload ==
    \E v \in VideoIds \ issued :
        /\ issued' = issued \cup {v}
        /\ meta' = SaveMetadata(meta, v, NewMetadata)
        /\ dirs' = dirs \cup {v}
        /\ UNCHANGED <<blobs, events, uploads, runs, cancels, finals, janitor, client>>

----------------------------------------------------------------------------
\* upload_chunk endpoint -> StorageService.upload_chunk

\* outcome of the checks of StorageService.upload_chunk on the document md
UploadCheck(md, i, t, user) ==
    IF user # "nobody" /\ md.owner_id # user THEN "UploadError"
    ELSE IF i >= t THEN "UploadError"
    ELSE IF (IF md.total_chunks = 0 THEN t ELSE md.total_chunks) # t THEN "UploadError"
    ELSE "ok"

\* the call arrives, reads the document and validates; a call that fails
\* here raises and has changed nothing
UploadChunkRead(room, payloads, fresh) ==
    /\ InFlight < room
    /\ \E v \in issued, i \in ChunkIndices, t \in ChunkTotals,
          user \in Callers, data \in payloads :
        /\ fresh => /\ ~FileExists(blobs, ChunkPath(v, i))
                    /\ \A s \in DOMAIN uploads : <<uploads[s].vid, uploads[s].idx>> # <<v, i>>
        /\ LET res == IF v \notin DOMAIN meta THEN "VideoNotFoundError"
                   ELSE IF meta[v].chunks_received >= MaxReceived THEN "-"
                   ELSE UploadCheck(meta[v], i, t, user)
           IN  uploads' = IF res = "ok"
                          THEN Append(uploads,
                                   [pc |-> "save", vid |-> v, idx |-> i, total |-> t,
                                    user |-> user, data |-> data,
                                    md |-> [meta[v] EXCEPT !.total_chunks = t]])
                          ELSE uploads
    /\ UNCHANGED <<meta, blobs, dirs, issued, events, runs, cancels, finals, janitor, client>>

\* storage.save_file(chunk_path, chunk_data)
UploadChunkSave ==
    \E s \in DOMAIN uploads :
        /\ uploads[s].pc = "save"
        /\ blobs' = SaveFile(blobs, ChunkPath(uploads[s].vid, uploads[s].idx), uploads[s].data)
        /\ dirs' = dirs \cup {uploads[s].vid}
        /\ uploads' = [uploads EXCEPT ![s].pc = "meta"]
        /\ UNCHANGED <<meta, issued, events, runs, cancels, finals, janitor, client>>

\* a queued process_video background task
NewRun(v) == [pc |-> "read", vid |-> v, md |-> NewMetadata, err |-> "none"]

\* the document upload_chunk writes back
UploadChunkUpdate(md, t) ==
    [md EXCEPT !.chunks_received = @ + 1,
               !.upload_progress = Progress(md.chunks_received + 1, t),
               !.updated_at = "recent"]

\* metadata update and save.  With total_chunks = 0 the progress division
\* raises ZeroDivisionError and the call fails after the chunk was stored.
\* Called through the endpoint, the endpoint then queues process_video when
\* the chunk is the one with the last index
UploadChunkMeta(endpoint) ==
    \E s \in DOMAIN uploads :
        LET c == uploads[s]
            raises == c.total = 0
            trigger == endpoint /\ ~raises /\ c.idx = c.total - 1
        IN  /\ c.pc = "meta"
            /\ meta' = IF raises THEN meta
                       ELSE SaveMetadata(meta, c.vid, UploadChunkUpdate(c.md, c.total))
            /\ runs' = IF trigger THEN Append(runs, NewRun(c.vid)) ELSE runs
            /\ uploads' = Remove(uploads, s)
            /\ UNCHANGED <<blobs, dirs, issued, events, cancels, finals, janitor, client>>

----------------------------------------------------------------------------
\* VideoProcessor.process_video, one background task per run

\* event_type video_processed / video_uploaded messages
ProcessedEvent(v, st) == [event_type |-> "video_processed", video_id |-> v, status |-> st]
UploadedEvent(v) == [event_type |-> "video_uploaded", video_id |-> v, status |-> "-"]

\* an exception that escapes to the outer except clause
RaiseOuter(run, e) == [run EXCEPT !.pc = "outer", !.err = e]

\* an exception raised inside the inner try block: control goes to the
\* inner except clause, which is the handler
Raise(run, e) == [run EXCEPT !.pc = "handler", !.err = e]

\* metadata = get_video_metadata(video_id); VideoNotFoundError is re-raised
ProcessRead ==
    \E r \in DOMAIN runs :
        /\ runs[r].pc = "read"
        /\ runs' = IF runs[r].vid \in DOMAIN meta
                   THEN [runs EXCEPT ![r].pc = "mark", ![r].md = meta[runs[r].vid]]
                   ELSE Remove(runs, r)
        /\ UNCHANGED <<meta, blobs, dirs, issued, events, uploads, cancels, finals, janitor, client>>

\* the document the task writes on entry: status processing, whatever the
\* status it read
MarkProcessing(md) == [md EXCEPT !.status = "processing", !.updated_at = "recent"]

\* metadata["status"] = "processing"; save_metadata
ProcessMark ==
    \E r \in DOMAIN runs :
        /\ runs[r].pc = "mark"
        /\ runs' = [runs EXCEPT ![r].pc = "stage", ![r].md = MarkProcessing(runs[r].md)]
        /\ meta' = StorageService_save_metadata(meta, runs[r].vid, MarkProcessing(runs[r].md))
        /\ UNCHANGED <<blobs, dirs, issued, events, uploads, cancels, finals, janitor, client>>

\* get_file(metadata["output_path"]): KeyError when the document has no
\* output_path, StorageError when the file is missing
ProcessStage ==
    \E r \in DOMAIN runs :
        /\ runs[r].pc = "stage"
        /\ runs' = [runs EXCEPT ![r] =
                      IF runs[r].md.output_path = "none" THEN Raise(runs[r], "KeyError output_path")
                      ELSE IF ~StorageService_get_file(blobs, OutputPath(runs[r].vid))
                           THEN Raise(runs[r], "File not found")
                      ELSE [runs[r] EXCEPT !.pc = "probe"]]
        /\ UNCHANGED <<meta, blobs, dirs, issued, events, uploads, cancels, finals, janitor, client>>

\* quality_analyzer.analyze_video, then the probe fields are saved
ProcessProbe ==
    \E r \in DOMAIN runs :
        /\ runs[r].pc = "probe"
        /\ \/ /\ runs' = [runs EXCEPT ![r] = Raise(runs[r], "toolchain failed")]
              /\ UNCHANGED meta
           \/ /\ runs' = [runs EXCEPT ![r].pc = "thumbs"]
              /\ meta' = StorageService_save_metadata(meta, runs[r].vid,
                                                      [runs[r].md EXCEPT !.updated_at = "recent"])
        /\ UNCHANGED <<blobs, dirs, issued, events, uploads, cancels, finals, janitor, client>>

\* the thumbnails saved by the task: thumbnails/thumbnail_{0..2}.jpg and thumbnail.jpg
SaveThumbnails(b, v) ==
    StorageService_save_file(
        StorageService_save_file(
            StorageService_save_file(
                StorageService_save_file(b, ThumbPath(v, 0), <<>>),
                ThumbPath(v, 1), <<>>),
            ThumbPath(v, 2), <<>>),
        ThumbnailPath(v), <<>>)

\* thumbnail_generator.generate_thumbnails and the uploads of the stills
ProcessThumbnails ==
    \E r \in DOMAIN runs :
        /\ runs[r].pc = "thumbs"
        /\ \/ /\ runs' = [runs EXCEPT ![r] = Raise(runs[r], "toolchain failed")]
              /\ UNCHANGED <<blobs, dirs>>
           \/ /\ runs' = [runs EXCEPT ![r].pc = "transcode"]
              /\ blobs' = SaveThumbnails(blobs, runs[r].vid)
              /\ dirs' = dirs \cup {runs[r].vid}
        /\ UNCHANGED <<meta, issued, events, uploads, cancels, finals, janitor, client>>

\* Transcoder.transcode_video_for_streaming takes the id under which it
\* uploads from the output directory: basename(dirname(<tmp>/streaming/hls/<quality>))
\* is "hls", directory 0 of the model
TranscoderVideoId(v) == 0

\* the segment files the transcoder uploads
SaveSegments(b, v) ==
    StorageService_save_file(
        StorageService_save_file(b, <<TranscoderVideoId(v), "hls", 2>>, <<>>),
        <<TranscoderVideoId(v), "dash", 2>>, <<>>)

\* prepare_adaptive_streaming and transcode_video_for_streaming
ProcessTranscode ==
    \E r \in DOMAIN runs :
        /\ runs[r].pc = "transcode"
        /\ \/ /\ runs' = [runs EXCEPT ![r] = Raise(runs[r], "toolchain failed")]
              /\ UNCHANGED blobs
           \/ /\ runs' = [runs EXCEPT ![r].pc = "manifests"]
              /\ blobs' = SaveSegments(blobs, runs[r].vid)
        /\ UNCHANGED <<meta, dirs, issued, events, uploads, cancels, finals, janitor, client>>

\* the playlists and the MPD saved by generate_manifests
SaveManifests(b, v) ==
    SaveFile(SaveFile(SaveFile(b, HlsMasterPath(v), <<>>), HlsVariantPath(v), <<>>),
             DashMpdPath(v), <<>>)

\* adaptive_streaming.generate_manifests: save_hls_master_playlist,
\* save_hls_variant_playlist and save_dash_mpd verify that the document
\* exists before they write
ProcessManifests ==
    \E r \in DOMAIN runs :
        /\ runs[r].pc = "manifests"
        /\ \/ /\ runs' = [runs EXCEPT ![r] = Raise(runs[r], "toolchain failed")]
              /\ UNCHANGED <<blobs, dirs>>
           \/ /\ runs[r].vid \in DOMAIN meta
              /\ runs' = [runs EXCEPT ![r].pc = "ready"]
              /\ blobs' = SaveManifests(blobs, runs[r].vid)
              /\ dirs' = dirs \cup {runs[r].vid}
        /\ UNCHANGED <<meta, issued, events, uploads, cancels, finals, janitor, client>>

\* the document of a processed video
MarkReady(md) ==
    [md EXCEPT !.status = "ready", !.thumbnail_url = "set", !.hls_url = "set",
               !.dash_url = "set", !.playback_url = "set", !.updated_at = "recent"]

\* metadata["status"] = "ready"; get_file_url(thumbnail.jpg) raises when the
\* file is missing; the URLs are set and the document is saved
ProcessReady ==
    \E r \in DOMAIN runs :
        /\ runs[r].pc = "ready"
        /\ IF StorageService_get_file_url(blobs, ThumbnailPath(runs[r].vid))
           THEN /\ runs' = [runs EXCEPT ![r].pc = "notify", ![r].md = MarkReady(runs[r].md)]
                /\ meta' = StorageService_save_metadata(meta, runs[r].vid, MarkReady(runs[r].md))
           ELSE /\ runs' = [runs EXCEPT ![r] = Raise(runs[r], "File not found")]
                /\ UNCHANGED meta
        /\ UNCHANGED <<blobs, dirs, issued, events, uploads, cancels, finals, janitor, client>>

\* django_client.update_video_metadata and notify_video_ready return False
\* on failure; pubsub_client.notify_video_processed(video_id, "success")
\* raises when the bus does not acknowledge the message
ProcessNotify ==
    \E r \in DOMAIN runs :
        /\ runs[r].pc = "notify"
        /\ events' = events \cup {ProcessedEvent(runs[r].vid, "success")}
        /\ \/ runs' = Remove(runs, r)
           \/ runs' = [runs EXCEPT ![r] = Raise(runs[r], "Failed to publish message")]
        /\ UNCHANGED <<meta, blobs, dirs, issued, uploads, cancels, finals, janitor, client>>

\* the document the handler writes
MarkError(md, e) == [md EXCEPT !.status = "error", !.error = e, !.updated_at = "recent"]

\* except Exception as e: status error, error = str(e), save_metadata
ProcessHandlerSave ==
    \E r \in DOMAIN runs :
        /\ runs[r].pc = "handler"
        /\ runs' = [runs EXCEPT ![r].pc = "publish", ![r].md = MarkError(runs[r].md, runs[r].err)]
        /\ meta' = StorageService_save_metadata(meta, runs[r].vid, MarkError(runs[r].md, runs[r].err))
        /\ UNCHANGED <<blobs, dirs, issued, events, uploads, cancels, finals, janitor, client>>

\* handler, continued: django update, notify_video_processed(video_id,
\* "error"), raise VideoProcessingError; when the bus does not acknowledge,
\* the exception of publish_message leaves through the outer except clause
ProcessHandlerPublish ==
    \E r \in DOMAIN runs :
        /\ runs[r].pc = "publish"
        /\ events' = events \cup {ProcessedEvent(runs[r].vid, "error")}
        /\ \/ runs' = Remove(runs, r)
           \/ runs' = [runs EXCEPT ![r].pc = "outer", ![r].err = "Failed to publish message"]
        /\ UNCHANGED <<meta, blobs, dirs, issued, uploads, cancels, finals, janitor, client>>

\* outer except Exception: log and raise VideoProcessingError
ProcessOuterExcept ==
    \E r \in DOMAIN runs :
        /\ runs[r].pc = "outer"
        /\ runs' = Remove(runs, r)
        /\ UNCHANGED <<meta, blobs, dirs, issued, events, uploads, cancels, finals, janitor, client>>

\* the steps of a process_video task
ProcessVideo ==
    \/ ProcessRead
    \/ ProcessMark
    \/ ProcessStage
    \/ ProcessProbe
    \/ ProcessThumbnails
    \/ ProcessTranscode
    \/ ProcessManifests
    \/ ProcessReady
    \/ ProcessNotify
    \/ ProcessHandlerSave
    \/ ProcessHandlerPublish
    \/ ProcessOuterExcept

----------------------------------------------------------------------------
\* LocalService.combine_chunks

RECURSIVE ChunksFrom(_, _, _, _)
\* what the loop "for i in range(total_chunks)" has written when it ends or
\* raises: the chunks from i on, in index order, up to the first missing one
ChunksFrom(b, v, i, n) ==
    IF i >= n \/ ~FileExists(b, ChunkPath(v, i)) THEN <<>>
    ELSE b[ChunkPath(v, i)] \o ChunksFrom(b, v, i + 1, n)

\* TRUE when combine_chunks raises StorageError("Chunk i not found")
CombineRaises(b, v, n) == \E i \in 0..(n - 1) : ~FileExists(b, ChunkPath(v, i))

\* decimal digits of a chunk index below 100, as in the file name chunk_{i}
Digits(i) == IF i < 10 THEN <<i>> ELSE <<i \div 10, i % 10>>

\* chunk_{i} sorts before chunk_{j} in a directory listing
ListedBefore(i, j) ==
    LET a == Digits(i)
        c == Digits(j)
    IN  \/ a[1] < c[1]
        \/ a[1] = c[1] /\ Len(a) < Len(c)
        \/ a[1] = c[1] /\ Len(a) = 2 /\ Len(c) = 2 /\ a[2] < c[2]

\* the chunk indices below n in listing order
ListingOrder(n) ==
    [k \in 1..n |-> CHOOSE i \in 0..(n - 1) :
                        Cardinality({j \in 0..(n - 1) : ListedBefore(j, i)}) = k - 1]

RECURSIVE ChunksListed(_, _, _, _)
\* the chunks at positions k.. of the listing order, up to the first missing one
ChunksListed(b, v, order, k) ==
    IF k > Len(order) \/ ~FileExists(b, ChunkPath(v, order[k])) THEN <<>>
    ELSE b[ChunkPath(v, order[k])] \o ChunksListed(b, v, order, k + 1)

\* a combine_chunks that concatenates in listing order
CombineChunksListing(b, v, n) == Put(b, OutputPath(v), ChunksListed(b, v, ListingOrder(n), 1))

\* storage after combine_chunks: the output file is opened for writing
\* before the first chunk is looked at
CombineChunks(b, v, n) == Put(b, OutputPath(v), ChunksFrom(b, v, 0, n))

\* StorageService.combine_chunks: pass-through to the backend
StorageService_combine_chunks(b, v, n) == CombineChunks(b, v, n)

----------------------------------------------------------------------------
\* StorageService.finalize_upload

\* outcome of the checks of finalize_upload on the document md
FinalizeCheck(md, user) ==
    IF user # "nobody" /\ md.owner_id # user THEN "UploadError"
    ELSE IF md.chunks_received # md.total_chunks THEN "UploadError"
    ELSE "ok"

\* the call arrives, reads the document and validates
FinalizeRead(room) ==
    /\ InFlight < room
    /\ \E v \in issued, user \in Callers :
        finals' = IF v \in DOMAIN meta /\ FinalizeCheck(meta[v], user) = "ok"
                  THEN Append(finals, [pc |-> "combine", vid |-> v, md |-> meta[v]])
                  ELSE finals
    /\ UNCHANGED <<meta, blobs, dirs, issued, events, uploads, runs, cancels, janitor, client>>

\* the document finalize_upload writes
MarkUploaded(md) == [md EXCEPT !.status = "uploaded", !.output_path = "source",
                                 !.updated_at = "recent"]

\* storage.combine_chunks; when it raises the call ends with UploadError
FinalizeCombine ==
    \E f \in DOMAIN finals :
        LET c == finals[f] IN
        /\ c.pc = "combine"
        /\ blobs' = CombineChunks(blobs, c.vid, c.md.total_chunks)
        /\ dirs' = dirs \cup {c.vid}
        /\ finals' = IF CombineRaises(blobs, c.vid, c.md.total_chunks)
                     THEN Remove(finals, f)
                     ELSE [finals EXCEPT ![f].pc = "write", ![f].md = MarkUploaded(c.md)]
        /\ UNCHANGED <<meta, issued, events, uploads, runs, cancels, janitor, client>>

\* save_metadata of the finalized document
FinalizeWrite ==
    \E f \in DOMAIN finals :
        /\ finals[f].pc = "write"
        /\ meta' = SaveMetadata(meta, finals[f].vid, finals[f].md)
        /\ finals' = Remove(finals, f)
        /\ UNCHANGED <<blobs, dirs, issued, events, uploads, runs, cancels, janitor, client>>

----------------------------------------------------------------------------
\* StorageService.cancel_upload

\* the call arrives and reads the document; a missing document and a caller
\* who is not the owner both raise VideoNotFoundError
CancelRead(room) ==
    /\ InFlight < room
    /\ Len(cancels) < MaxCancels
    /\ \E v \in issued, user \in Callers :
        cancels' = IF v \in DOMAIN meta /\ (user = "nobody" \/ meta[v].owner_id = user)
                   THEN Append(cancels, [pc |-> "delete", vid |-> v, user |-> user])
                   ELSE cancels
    /\ UNCHANGED <<meta, blobs, dirs, issued, events, uploads, runs, finals, janitor, client>>

\* storage.delete_directory(videos/{id}) and storage.delete_metadata(id)
CancelDelete ==
    \E c \in DOMAIN cancels :
        /\ cancels[c].pc = "delete"
        /\ blobs' = DeleteDirectory(blobs, cancels[c].vid)
        /\ dirs' = dirs \ {cancels[c].vid}
        /\ meta' = DeleteMetadata(meta, cancels[c].vid)
        /\ cancels' = [cancels EXCEPT ![c].pc = "deleted"]
        /\ UNCHANGED <<issued, events, uploads, runs, finals, janitor, client>>

----------------------------------------------------------------------------
\* VideoProcessor.retry_processing

\* a retry_processing that takes a record in any status
RetryReadAnyStatus(room) ==
    /\ InFlight < room
    /\ \E v \in issued :
        /\ runs' = IF v \in DOMAIN meta
                   THEN Append(runs, [NewRun(v) EXCEPT !.pc = "retry", !.md = meta[v]])
                   ELSE runs
    /\ UNCHANGED <<meta, blobs, dirs, issued, events, uploads, cancels, finals, janitor, client>>

\* the call reads the document; any status but error raises
RetryRead(room) ==
    /\ InFlight < room
    /\ \E v \in issued :
        /\ runs' = IF v \in DOMAIN meta /\ meta[v].status = "error"
                   THEN Append(runs, [NewRun(v) EXCEPT !.pc = "retry", !.md = meta[v]])
                   ELSE runs
    /\ UNCHANGED <<meta, blobs, dirs, issued, events, uploads, cancels, finals, janitor, client>>

\* the document retry_processing writes before it calls process_video
MarkPending(md) == [md EXCEPT !.status = "pending", !.error = "none", !.updated_at = "recent"]

\* status pending, error None, save_metadata; process_video follows in the
\* same task
RetryWrite ==
    \E r \in DOMAIN runs :
        /\ runs[r].pc = "retry"
        /\ meta' = StorageService_save_metadata(meta, runs[r].vid, MarkPending(runs[r].md))
        /\ runs' = [runs EXCEPT ![r] = NewRun(runs[r].vid)]
        /\ UNCHANGED <<blobs, dirs, issued, events, uploads, cancels, finals, janitor, client>>

----------------------------------------------------------------------------
\* ChunkWorker.combine_chunks(video_id, total_chunks), run as one step

\* chunk contents of the composition check
ComposePayloads == {<<0>>, <<1, 1>>}

\* ChunkWorker.combine_chunks leaves updated_at as it read it
KeepUpdatedAt(doc, md) == [doc EXCEPT !.updated_at = md.updated_at]

WorkerCombineChunks ==
    \E v \in DOMAIN meta :
        LET n == meta[v].total_chunks IN
        /\ blobs' = StorageService_combine_chunks(blobs, v, n)
        /\ dirs' = dirs \cup {v}
        /\ IF CombineRaises(blobs, v, n)
           THEN /\ meta' = StorageService_save_metadata(meta, v, KeepUpdatedAt(MarkError(meta[v], "Failed to combine chunks"), meta[v]))
                /\ UNCHANGED events
           ELSE /\ events' = events \cup {UploadedEvent(v)}
                /\ \/ meta' = StorageService_save_metadata(meta, v, KeepUpdatedAt(MarkUploaded(meta[v]), meta[v]))
                   \/ \* notify_video_uploaded raises: the except clause marks the record
                      meta' = StorageService_save_metadata(meta, v,
                                  KeepUpdatedAt(MarkError(MarkUploaded(meta[v]),
                                                          "Failed to combine chunks"), meta[v]))
        /\ UNCHANGED <<issued, uploads, runs, cancels, finals, janitor, client>>

\* a record whose n chunks were uploaded, all of them stored or one of them
\* missing (a chunk index uploaded twice is counted twice)
InitCompose ==
    \E v \in VideoIds, n \in 1..MaxComposeChunks, missing \in -1..(MaxComposeChunks - 1),
       content \in [0..(MaxComposeChunks - 1) -> ComposePayloads] :
        /\ \A i \in n..(MaxComposeChunks - 1) : content[i] = <<0>>
        /\ missing < n
        /\ missing >= 0 => content[missing] = <<0>>
        /\ meta = SaveMetadata(<<>>, v, [NewMetadata EXCEPT !.chunks_received = n,
                                            !.total_chunks = n, !.upload_progress = 100])
        /\ blobs = [p \in {ChunkPath(v, i) : i \in (0..(n - 1)) \ {missing}} |-> content[p[3]]]
        /\ dirs = {v}
        /\ issued = {v}
        /\ events = {}
        /\ uploads = <<>>
        /\ runs = <<>>
        /\ cancels = <<>>
        /\ finals = <<>>
        /\ janitor = JanitorIdle
        /\ client = ClientIdle

NextCompose == WorkerCombineChunks

SpecCompose == InitCompose /\ [][NextCompose]_vars

\* The pipeline, one operation at a time: a call arrives when no other call
\* or task is in flight
Next ==
    \/ InitializeUpload
    \/ UploadChunkRead(1, OnePayload, FALSE)
    \/ UploadChunkSave
    \/ UploadChunkMeta(TRUE)
    \/ ProcessVideo
    \/ FinalizeRead(1)
    \/ FinalizeCombine
    \/ FinalizeWrite
    \/ CancelRead(1)
    \/ CancelDelete
    \/ RetryRead(1)
    \/ RetryWrite

Spec == Init /\ [][Next]_vars

\* StorageService.upload_chunk called concurrently, every call for a chunk
\* index that no earlier call carried
NextUpload ==
    \/ InitializeUpload
    \/ UploadChunkRead(MaxInFlight, Payloads, TRUE)
    \/ UploadChunkSave
    \/ UploadChunkMeta(FALSE)

SpecUpload == Init /\ [][NextUpload]_vars

\* cancel_upload arriving while an upload_chunk call, a finalize_upload call
\* or a process_video task is in flight.  One video: the operations on
\* different ids share no state
NextCancel ==
    \/ issued = {} /\ InitializeUpload
    \/ UploadChunkRead(1, OnePayload, FALSE)
    \/ UploadChunkSave
    \/ UploadChunkMeta(TRUE)
    \/ ProcessVideo
    \/ FinalizeRead(1)
    \/ FinalizeCombine
    \/ FinalizeWrite
    \/ CancelRead(MaxInFlight)
    \/ CancelDelete

SpecCancel == Init /\ [][NextCancel]_vars

----------------------------------------------------------------------------
\* CleanupWorker (the janitor) and the listing it relies on

\* Python values as far as list_videos tells them apart: None, a string, a dict
PyNone == <<"none", "">>
PyStr(str) == <<"str", str>>
PyDict(d) == <<"dict", d>>

\* truth value of a Python value: None, "" and {} are false
Truthy(x) ==
    IF x[1] = "dict" THEN DOMAIN x[2] # {}
    ELSE IF x[1] = "str" THEN x[2] # ""
    ELSE FALSE

\* ==: values of different types are different
PyEq(a, b) == a[1] = b[1] /\ a[2] = b[2]

\* dict.get(key, default)
Get(md, key, default) == IF key \in DOMAIN md THEN md[key] ELSE default

\* LocalService._matches_filters: every key of the filter is a key of the
\* document and carries the filter's value
MatchesFilters(md, filters) ==
    \A key \in DOMAIN filters : key \in DOMAIN md /\ PyEq(PyStr(md[key]), filters[key])

\* videos[skip:skip + limit] of the list sorted newest first; the ids are
\* numbered in the order of creation
Paginate(S, skip, limit) ==
    {v \in S : LET newer == Cardinality({w \in S : w > v})
               IN  newer >= skip /\ newer < skip + limit}

\* LocalService.list_videos: the ids of the documents it returns
ListVideos(m, filters, skip, limit) ==
    Paginate({v \in DOMAIN m : MatchesFilters(m[v], filters)}, skip, limit)

\* StorageService.list_videos(user_id=None, skip=0, limit=20, filters=None):
\* filter_dict = filters or {}; a true user_id becomes the owner_id filter
StorageService_list_videos(m, user_id, skip, limit, filters) ==
    LET filter_dict == IF Truthy(filters) THEN filters[2] ELSE <<>>
        with_owner == IF Truthy(user_id) THEN Put(filter_dict, "owner_id", user_id)
                      ELSE filter_dict
    IN  ListVideos(m, with_owner, skip, limit)

\* LocalService.list_directories("videos"): the entries of videos/
ListDirectories(b, ds) == ds \cup {p[1] : p \in DOMAIN b}

\* StorageService.list_directories: pass-through to the backend
StorageService_list_directories(b, ds) == ListDirectories(b, ds)

\* StorageService.delete_directory("videos/{d}") for every d of a set
StorageService_delete_directory(b, ds) == Drop(b, {p \in DOMAIN b : p[1] \in ds})

\* StorageService.delete_directory("videos/{v}/{sub}") for every v of a set
StorageService_delete_sub_directory(b, vs, sub) ==
    Drop(b, {p \in DOMAIN b : p[1] \in vs /\ p[2] = sub})

\* StorageService.delete_metadata for every id of a set
StorageService_delete_metadata(m, vs) == Drop(m, vs)

\* the limit arguments of the three listings
ExpiredListLimit == 1000
StalledListLimit == 100
OrphanListLimit == 10000

\* time passes: what was written recently is by now older than stall_hours
Tick ==
    /\ \E v \in DOMAIN meta : meta[v].updated_at = "recent"
    /\ meta' = [v \in DOMAIN meta |-> [meta[v] EXCEPT !.updated_at = "old"]]
    /\ UNCHANGED <<blobs, dirs, issued, events, uploads, runs, cancels, finals, janitor, client>>

\* run_cleanup_job is started (the periodic schedule)
JanitorStart ==
    /\ janitor.pc = "idle"
    /\ janitor' = [pc |-> "expired", ids |-> {}, failed |-> {}]
    /\ UNCHANGED <<meta, blobs, dirs, issued, events, uploads, runs, cancels, finals, client>>

\* cleanup_expired_content: list_videos({}, 0, 1000); of the documents that
\* carry a true allow_cleanup, those older than expiration_days are removed
\* by cleanup_video (delete_directory, delete_metadata)
JanitorExpired ==
    /\ janitor.pc = "expired"
    /\ LET videos == StorageService_list_videos(meta, PyDict(<<>>), 0, ExpiredListLimit, PyNone)
           eligible == {v \in videos : Get(meta[v], "allow_cleanup", FALSE)}
       IN  \E expired \in SUBSET eligible :
              /\ blobs' = StorageService_delete_directory(blobs, expired)
              /\ dirs' = dirs \ expired
              /\ meta' = StorageService_delete_metadata(meta, expired)
    /\ janitor' = [janitor EXCEPT !.pc = "stalled"]
    /\ UNCHANGED <<issued, events, uploads, runs, cancels, finals, client>>

\* the reason recover_stalled_processing records (stall_hours = 4)
StalledMessage == "Processing stalled for over 4 hours"

\* the document recover_stalled_processing writes
MarkStalled(md) == [md EXCEPT !.status = "error", !.error = StalledMessage]

\* a stall recovery whose listing passes the dictionary as filters
JanitorStalledByFilters ==
    /\ janitor.pc = "stalled"
    /\ LET videos == StorageService_list_videos(meta, PyNone, 0, StalledListLimit,
                                                PyDict([status |-> PyStr("processing")]))
           stalled == {v \in videos : meta[v].updated_at # "recent"}
       IN  /\ meta' = [v \in DOMAIN meta |->
                          IF v \in stalled THEN MarkStalled(meta[v]) ELSE meta[v]]
           /\ blobs' = StorageService_delete_sub_directory(
                           StorageService_delete_sub_directory(blobs, stalled, "hls"),
                           stalled, "dash")
    /\ janitor' = [janitor EXCEPT !.pc = "orphans"]
    /\ UNCHANGED <<dirs, issued, events, uploads, runs, cancels, finals, client>>

\* recover_stalled_processing: list_videos({"status": "processing"}, 0, 100);
\* every listed document whose updated_at is not after now - stall_hours is
\* marked, and cleanup_failed_processing deletes its hls/ and dash/
JanitorStalled ==
    /\ janitor.pc = "stalled"
    /\ LET videos == StorageService_list_videos(meta, PyDict([status |-> PyStr("processing")]),
                                                0, StalledListLimit, PyNone)
           stalled == {v \in videos : meta[v].updated_at # "recent"}
       IN  /\ meta' = [v \in DOMAIN meta |->
                          IF v \in stalled THEN MarkStalled(meta[v]) ELSE meta[v]]
           /\ blobs' = StorageService_delete_sub_directory(
                           StorageService_delete_sub_directory(blobs, stalled, "hls"),
                           stalled, "dash")
    /\ janitor' = [janitor EXCEPT !.pc = "orphans"]
    /\ UNCHANGED <<dirs, issued, events, uploads, runs, cancels, finals, client>>

\* cleanup_orphaned_files, the listing: list_videos({}, 0, 10000) takes the
\* names of the documents and then reads them one by one, suspending at
\* every read; video_ids are the ids it found
JanitorSweepList ==
    /\ janitor.pc = "orphans"
    /\ DOMAIN meta # {}
    /\ janitor' = [janitor EXCEPT !.pc = "sweep",
                      !.ids = StorageService_list_videos(meta, PyDict(<<>>), 0,
                                                         OrphanListLimit, PyNone)]
    /\ UNCHANGED <<meta, blobs, dirs, issued, events, uploads, runs, cancels, finals, client>>

\* cleanup_orphaned_files, the sweep: list_directories("videos") and
\* delete_directory of every entry whose id is not in video_ids.  With no
\* document to read the listing does not suspend and the sweep follows it
\* in the same step.  delete_directory may raise on an entry (rmtree fails):
\* the entries handled before it are deleted, the job raises StorageError
\* and run_cleanup_job raises it again
JanitorSweepDelete ==
    /\ \/ janitor.pc = "sweep"
       \/ janitor.pc = "orphans" /\ DOMAIN meta = {}
    /\ LET video_ids == IF janitor.pc = "sweep" THEN janitor.ids ELSE {}
           orphans == StorageService_list_directories(blobs, dirs) \ video_ids
       IN  \E failed \in {{}} \cup {{d} : d \in orphans} :
           \E done \in SUBSET (orphans \ failed) :
              /\ failed = {} => done = orphans
              /\ blobs' = StorageService_delete_directory(blobs, done)
              /\ dirs' = dirs \ done
              /\ janitor' = [pc |-> "idle", ids |-> video_ids, failed |-> failed]
    /\ UNCHANGED <<meta, issued, events, uploads, runs, cancels, finals, client>>

\* the steps of a run_cleanup_job task
Janitor ==
    \/ JanitorStart
    \/ JanitorExpired
    \/ JanitorStalled
    \/ JanitorSweepList
    \/ JanitorSweepDelete

\* Storage as a cleanup job may find it.  Every earlier video is in one of
\* these conditions:
\*   none     never created, or cancelled
\*   orphan   a chunk without a document (cancel_upload while upload_chunk
\*            was in flight, the upload then failing on total_chunks = 0)
\*   pending  initialized long ago, nothing uploaded
\*   stalled  processing, last written more than stall_hours ago, manifests written
\*   running  processing, written recently, manifests written
\*   ready    processed long ago
Conditions == {"none", "orphan", "pending", "stalled", "running", "ready"}

\* the document of a video in a condition
ConditionDocument(c) ==
    LET uploaded == MarkUploaded([NewMetadata EXCEPT !.chunks_received = 1, !.total_chunks = 1,
                                                     !.upload_progress = 100])
    IN  IF c = "pending" THEN [NewMetadata EXCEPT !.updated_at = "old"]
        ELSE IF c = "stalled" THEN [MarkProcessing(uploaded) EXCEPT !.updated_at = "old"]
        ELSE IF c = "running" THEN MarkProcessing(uploaded)
        ELSE [MarkReady(uploaded) EXCEPT !.updated_at = "old"]

\* the files of a video in a condition
ConditionFiles(v, c) ==
    IF c \in {"none", "pending"} THEN {}
    ELSE IF c = "orphan" THEN {ChunkPath(v, 0)}
    ELSE {ChunkPath(v, 0), OutputPath(v), ThumbnailPath(v),
          HlsMasterPath(v), HlsVariantPath(v), DashMpdPath(v)}

MaxJanitorVideos == 2   \* videos created before the cleanup job starts

\* ids of the earlier videos, older than the ids initialize_upload hands out
JanitorIds == (0 - MaxJanitorVideos)..(-1)

\* the segments the transcoder left under videos/hls, or none
SegmentFiles == {{}, {<<0, "hls", 2>>, <<0, "dash", 2>>}}

InitJanitor ==
    \E cond \in [JanitorIds -> Conditions], segments \in SegmentFiles :
        /\ meta = [v \in {j \in JanitorIds : cond[j] \notin {"none", "orphan"}} |->
                      ConditionDocument(cond[v])]
        /\ blobs = [p \in segments \cup UNION {ConditionFiles(j, cond[j]) : j \in JanitorIds}
                      |-> <<>>]
        /\ dirs = {j \in JanitorIds : cond[j] # "none"}
        /\ issued = {j \in JanitorIds : cond[j] # "none"}
        /\ events = {}
        /\ uploads = <<>>
        /\ runs = <<>>
        /\ cancels = <<>>
        /\ finals = <<>>
        /\ janitor = JanitorIdle
        /\ client = ClientIdle

\* cleanup jobs, and uploads that are initialized while one runs
NextJanitor ==
    \/ InitializeUpload
    \/ Janitor

SpecJanitor == InitJanitor /\ [][NextJanitor]_vars

\* One video driven through the HTTP endpoints /initialize and /chunk:
\* upload_chunk calls, each for a chunk index that no earlier call carried,
\* arrive also while a process_video task is in flight; time passes and the
\* cleanup job runs again and again.  No endpoint calls finalize_upload, so
\* the document never carries an output_path and a process_video task
\* leaves through its handler at the staging step: these are all the steps
\* of ProcessVideo that can occur
NextLive ==
    \/ issued = {} /\ InitializeUpload
    \/ UploadChunkRead(MaxInFlight, OnePayload, TRUE)
    \/ UploadChunkSave
    \/ UploadChunkMeta(TRUE)
    \/ ProcessRead
    \/ ProcessMark
    \/ ProcessStage
    \/ ProcessHandlerSave
    \/ ProcessHandlerPublish
    \/ ProcessOuterExcept
    \/ Tick
    \/ Janitor

\* Fair scheduling: the event loop runs every task that can take a step
\* (a call that arrived returns, a process_video task goes on), time
\* passes, and the periodic cleanup job is started and goes on.  Clients
\* are not obliged to send requests
SpecLive ==
    /\ Init
    /\ [][NextLive]_vars
    /\ WF_vars(UploadChunkSave)
    /\ WF_vars(UploadChunkMeta(TRUE))
    /\ WF_vars(ProcessVideo)
    /\ WF_vars(Tick)
    /\ WF_vars(Janitor)

\* process_video_chunks(video_id) is started for a video (worker entry point)
ChunksJobStart(room) ==
    /\ InFlight < room
    /\ \E v \in issued :
        runs' = Append(runs, [NewRun(v) EXCEPT !.pc = "chunks"])
    /\ UNCHANGED <<meta, blobs, dirs, issued, events, uploads, cancels, finals, janitor, client>>

\* process_video_chunks: its first statement subscripts the coroutine that
\* get_video_metadata returns, get_video_metadata(video_id)["total_chunks"],
\* which raises TypeError before combine_chunks, process_video and
\* cleanup_chunks are reached
ChunksJobRun ==
    \E r \in DOMAIN runs :
        /\ runs[r].pc = "chunks"
        /\ runs' = Remove(runs, r)
        /\ UNCHANGED <<meta, blobs, dirs, issued, events, uploads, cancels, finals, janitor, client>>

\* One video, one operation at a time, from upload to ready, with the
\* chunk job and the cleanup job running again and again
NextReady ==
    \/ issued = {} /\ InitializeUpload
    \/ UploadChunkRead(1, OnePayload, FALSE)
    \/ UploadChunkSave
    \/ UploadChunkMeta(TRUE)
    \/ FinalizeRead(1)
    \/ FinalizeCombine
    \/ FinalizeWrite
    \/ RetryRead(1)
    \/ RetryWrite
    \/ ProcessVideo
    \/ ChunksJobStart(1)
    \/ ChunksJobRun
    \/ Janitor

\* Fair scheduling: every call that arrived and every task that was started
\* goes on, and the periodic cleanup job is started and goes on.  Clients
\* are not obliged to send requests
SpecReady ==
    /\ Init
    /\ [][NextReady]_vars
    /\ WF_vars(UploadChunkSave)
    /\ WF_vars(UploadChunkMeta(TRUE))
    /\ WF_vars(FinalizeCombine)
    /\ WF_vars(FinalizeWrite)
    /\ WF_vars(RetryWrite)
    /\ WF_vars(ProcessVideo)
    /\ WF_vars(ChunksJobRun)
    /\ WF_vars(Janitor)

----------------------------------------------------------------------------
\* Transcoder, ManifestGenerator, AdaptiveStreamingService.generate_manifests
\* and the manifest job of ManifestWorker

MaxSegments == 2        \* segments ffmpeg writes per quality and format
MaxDuration == 1        \* probed segment durations are 1..MaxDuration milliseconds
MaxJobVariants == 3     \* qualities in the results handed to the manifest job

\* settings.VIDEO_QUALITY_PROFILES in the order of the configuration;
\* bitrate "300k" is kept as the number before the k
QualityProfiles ==
    << [quality |-> "240p", resolution |-> <<426, 240>>, bitrate |-> 300],
       [quality |-> "360p", resolution |-> <<640, 360>>, bitrate |-> 800],
       [quality |-> "480p", resolution |-> <<854, 480>>, bitrate |-> 1400],
       [quality |-> "720p", resolution |-> <<1280, 720>>, bitrate |-> 2800],
       [quality |-> "1080p", resolution |-> <<1920, 1080>>, bitrate |-> 5000] >>

Qualities == {QualityProfiles[i].quality : i \in DOMAIN QualityProfiles}

\* int(bitrate.replace("k", "000"))
Bandwidth(bitrate) == bitrate * 1000

\* settings.DASH_SEGMENT_DURATION and settings.HLS_SEGMENT_DURATION, seconds
DashSegmentDuration == 4
HlsSegmentDuration == 6

\* what ffprobe reports for a segment file: it fails or prints no number,
\* or it prints a duration, here already int(seconds * 1000); a media
\* segment holds at least one frame and lasts a millisecond or more
ProbeOutcomes == {<<"failed", 0>>} \cup {<<"ms", d>> : d \in 1..MaxDuration}

\* the probes of the segment files ffmpeg wrote for one quality: a run of
\* ffmpeg that exits with 0 has written at least one segment
ProbeLists == UNION {[1..n -> ProbeOutcomes] : n \in 1..MaxSegments}

\* the probes of all variants: every quality is cut from the same input
\* with the same segment duration into the same number of segments
VariantProbes ==
    {probes \in [Qualities -> ProbeLists] :
        \A q1, q2 \in Qualities : Len(probes[q1]) = Len(probes[q2])}

\* duration of a DASH segment in milliseconds: the target duration when the
\* probe gave no number
DashDuration(probe) == IF probe[1] = "ms" THEN probe[2] ELSE DashSegmentDuration * 1000

\* start_time before segment i: the durations of the segments before it
RECURSIVE StartTime(_, _)
StartTime(probes, i) ==
    IF i = 1 THEN 0 ELSE StartTime(probes, i - 1) + DashDuration(probes[i - 1])

\* a segment list whose start does not accumulate
TranscodeForDashNoAccumulate(probes) ==
    [i \in 1..Len(probes) |->
        [index |-> i, start |-> 0, duration |-> DashDuration(probes[i])]]

\* Transcoder._transcode_for_dash: the segment list, numbered from 1
TranscodeForDash(probes) ==
    [i \in 1..Len(probes) |->
        [index |-> i, start |-> StartTime(probes, i), duration |-> DashDuration(probes[i])]]

\* Transcoder._transcode_for_hls: the segment list, numbered from 0; the
\* durations are not followed further
TranscodeForHls(probes) ==
    [i \in 1..Len(probes) |-> [index |-> i - 1, duration |-> HlsSegmentDuration]]

\* segments_info of transcode_video_for_streaming for the variants of
\* prepare_adaptive_streaming (every profile) and the probes of each quality
SegmentsInfo(probes) ==
    [hls_segments |-> [q \in Qualities |-> TranscodeForHls(probes[q])],
     dash_segments |-> [q \in Qualities |-> TranscodeForDash(probes[q])]]

\* segments_info before the transcoder returned
NoSegments == [hls_segments |-> <<>>, dash_segments |-> <<>>]

\* the profiles, in the order of the configuration, whose quality is a key
\* of a segment dictionary
ProfilesIn(segments) ==
    LET Generated(profile) == profile.quality \in DOMAIN segments
    IN  SelectSeq(QualityProfiles, Generated)

\* generate_manifests: the variant data handed to the HLS generator
HlsVariants(info) ==
    LET profiles == ProfilesIn(info.hls_segments)
    IN  [i \in DOMAIN profiles |->
            [bandwidth |-> Bandwidth(profiles[i].bitrate),
             resolution |-> profiles[i].resolution,
             name |-> profiles[i].quality]]

\* adaptation sets listed in the reverse order of the configuration
DashAdaptationSetsReversed(info) ==
    LET profiles == ProfilesIn(info.dash_segments)
        n == Len(profiles)
    IN  [i \in DOMAIN profiles |->
            [id |-> profiles[n + 1 - i].quality,
             width |-> profiles[n + 1 - i].resolution[1],
             height |-> profiles[n + 1 - i].resolution[2],
             bandwidth |-> Bandwidth(profiles[n + 1 - i].bitrate),
             segment_timeline |-> info.dash_segments[profiles[n + 1 - i].quality]]]

\* generate_manifests: the adaptation set data handed to the MPD generator;
\* id stands for "video_{quality}"
DashAdaptationSets(info) ==
    LET profiles == ProfilesIn(info.dash_segments)
    IN  [i \in DOMAIN profiles |->
            [id |-> profiles[i].quality,
             width |-> profiles[i].resolution[1],
             height |-> profiles[i].resolution[2],
             bandwidth |-> Bandwidth(profiles[i].bitrate),
             segment_timeline |-> info.dash_segments[profiles[i].quality]]]

\* the lines of a master playlist
HeaderLine(tag) == [tag |-> tag, bandwidth |-> 0, resolution |-> <<0, 0>>, uri |-> ""]
StreamInfLine(variant) ==
    [tag |-> "EXT-X-STREAM-INF", bandwidth |-> variant.bandwidth,
     resolution |-> variant.resolution, uri |-> ""]
UriLine(variant) ==
    [tag |-> "URI", bandwidth |-> 0, resolution |-> <<0, 0>>, uri |-> variant.name]

\* ManifestGenerator.generate_hls_master_playlist: the two header lines,
\* then for every variant, in the order of the list, its EXT-X-STREAM-INF
\* line and the name of its playlist
GenerateHlsMasterPlaylist(variant_playlists) ==
    [k \in 1..(2 + 2 * Len(variant_playlists)) |->
        IF k = 1 THEN HeaderLine("EXTM3U")
        ELSE IF k = 2 THEN HeaderLine("EXT-X-VERSION")
        ELSE IF k % 2 = 1 THEN StreamInfLine(variant_playlists[(k - 1) \div 2])
        ELSE UriLine(variant_playlists[(k - 2) \div 2])]

\* ManifestGenerator.generate_dash_mpd: one AdaptationSet per entry of the
\* list, in its order, with startNumber 1 and one S element per segment
GenerateDashMpd(adaptation_sets) ==
    [i \in DOMAIN adaptation_sets |->
        [id |-> adaptation_sets[i].id,
         width |-> adaptation_sets[i].width,
         height |-> adaptation_sets[i].height,
         bandwidth |-> adaptation_sets[i].bandwidth,
         startNumber |-> 1,
         SegmentTimeline |->
            [j \in DOMAIN adaptation_sets[i].segment_timeline |->
                [t |-> adaptation_sets[i].segment_timeline[j].start,
                 d |-> adaptation_sets[i].segment_timeline[j].duration]]]]

\* transcode_video_for_streaming inside process_video: every variant is
\* transcoded and probed and its segments are uploaded; a failing ffmpeg
\* raises
TranscodeVideoForStreaming ==
    \E r \in DOMAIN runs :
        /\ runs[r].pc = "transcode"
        /\ \/ /\ runs' = [runs EXCEPT ![r] = Raise(runs[r], "toolchain failed")]
              /\ UNCHANGED blobs
           \/ \E probes \in VariantProbes :
                 /\ runs' = [runs EXCEPT ![r].pc = "manifests",
                                         ![r].segments_info = SegmentsInfo(probes)]
                 /\ blobs' = SaveSegments(blobs, runs[r].vid)
        /\ UNCHANGED <<meta, dirs, issued, events, uploads, cancels, finals, janitor, client>>

\* adaptive_streaming.generate_manifests inside process_video: the master
\* playlist, the variant playlists and the MPD are generated and saved
GenerateManifests ==
    \E r \in DOMAIN runs :
        LET v == runs[r].vid
            info == runs[r].segments_info
        IN  /\ runs[r].pc = "manifests"
            /\ \/ /\ runs' = [runs EXCEPT ![r] = Raise(runs[r], "toolchain failed")]
                  /\ UNCHANGED <<blobs, dirs>>
               \/ /\ v \in DOMAIN meta
                  /\ runs' = [runs EXCEPT ![r].pc = "ready"]
                  /\ blobs' = SaveFile(SaveFile(SaveFile(blobs,
                                  HlsMasterPath(v), GenerateHlsMasterPlaylist(HlsVariants(info))),
                                  HlsVariantPath(v), <<>>),
                                  DashMpdPath(v), GenerateDashMpd(DashAdaptationSets(info)))
                  /\ dirs' = dirs \cup {v}
            /\ UNCHANGED <<meta, issued, events, uploads, cancels, finals, janitor, client>>

\* a video that process_video has staged and probed and whose thumbnails
\* it has stored: the task is about to transcode
InitManifest ==
    \E v \in VideoIds :
        /\ meta = SaveMetadata(<<>>, v, ConditionDocument("running"))
        /\ blobs = SaveThumbnails(SaveFile(SaveFile(<<>>, ChunkPath(v, 0), <<0>>),
                                           OutputPath(v), <<0>>), v)
        /\ dirs = {v}
        /\ issued = {v}
        /\ events = {}
        /\ uploads = <<>>
        /\ runs = << [pc |-> "transcode", vid |-> v, md |-> ConditionDocument("running"),
                      err |-> "none", segments_info |-> NoSegments] >>
        /\ cancels = <<>>
        /\ finals = <<>>
        /\ janitor = JanitorIdle
        /\ client = ClientIdle

\* process_video from the transcoder to its end
NextManifest ==
    \/ TranscodeVideoForStreaming
    \/ GenerateManifests
    \/ ProcessReady
    \/ ProcessNotify
    \/ ProcessHandlerSave
    \/ ProcessHandlerPublish
    \/ ProcessOuterExcept

SpecManifest == InitManifest /\ [][NextManifest]_vars

\* the lists of results a caller hands to generate_manifests_job: the
\* profiles of up to MaxJobVariants different qualities in the order of the
\* caller's dictionary
RECURSIVE ResultLists(_)
ResultLists(n) ==
    IF n = 0 THEN {<<>>}
    ELSE LET shorter == ResultLists(n - 1)
         IN  shorter \cup
             UNION {{Append(l, QualityProfiles[i]) :
                        i \in {k \in DOMAIN QualityProfiles :
                                  \A j \in DOMAIN l : l[j] # QualityProfiles[k]}} :
                    l \in {x \in shorter : Len(x) = n - 1}}

\* ManifestWorker.prepare_hls_variant_data: one entry per result, in the
\* order of the dictionary
PrepareHlsVariantData(results) ==
    [i \in DOMAIN results |->
        [bandwidth |-> Bandwidth(results[i].bitrate),
         resolution |-> results[i].resolution,
         name |-> results[i].quality]]

\* the document generate_manifests_job writes
MarkManifests(md, hls, dash) ==
    [md EXCEPT !.hls_url = IF hls THEN "set" ELSE "none",
               !.dash_url = IF dash THEN "set" ELSE "none",
               !.playback_url = IF hls THEN "set" ELSE "none"]

\* ManifestWorker.prepare_dash_adaptation_data: one entry per result, in
\* the order of the dictionary, each with the segment list of its result
PrepareDashAdaptationData(results, segments) ==
    [i \in DOMAIN results |->
        [id |-> results[i].quality,
         width |-> results[i].resolution[1],
         height |-> results[i].resolution[2],
         bandwidth |-> Bandwidth(results[i].bitrate),
         segment_timeline |-> segments]]

\* the segment list in every "dash" result of the caller: one segment of
\* the target duration
JobSegments == TranscodeForDash(<< <<"failed", 0>> >>)

\* generate_manifests_job(video_id, transcoding_results, duration): the
\* master playlist and the variant playlists of the "hls" results, the MPD
\* of the "dash" results, which the caller passes for the same qualities,
\* then the URLs are written into the document
GenerateManifestsJob ==
    \E v \in DOMAIN meta, hls \in ResultLists(MaxJobVariants) :
        LET master == StorageService_save_file(
                          StorageService_save_file(blobs, HlsMasterPath(v),
                              GenerateHlsMasterPlaylist(PrepareHlsVariantData(hls))),
                          HlsVariantPath(v), <<>>)
            mpd == GenerateDashMpd(PrepareDashAdaptationData(hls, JobSegments))
        IN  /\ hls # <<>>
            /\ blobs' = StorageService_save_file(master, DashMpdPath(v), mpd)
            /\ dirs' = dirs \cup {v}
            /\ meta' = StorageService_save_metadata(meta, v, MarkManifests(meta[v], TRUE, TRUE))
            /\ UNCHANGED <<issued, events, uploads, runs, cancels, finals, janitor, client>>

\* a transcoded video for which the manifest job is run: one that is being
\* processed or one that is ready
InitManifestJob ==
    \E v \in VideoIds, c \in {"running", "ready"} :
        /\ meta = SaveMetadata(<<>>, v, ConditionDocument(c))
        /\ blobs = [p \in ConditionFiles(v, c) |-> <<>>]
        /\ dirs = {v}
        /\ issued = {v}
        /\ events = {}
        /\ uploads = <<>>
        /\ runs = <<>>
        /\ cancels = <<>>
        /\ finals = <<>>
        /\ janitor = JanitorIdle
        /\ client = ClientIdle

NextManifestJob == GenerateManifestsJob

SpecManifestJob == InitManifestJob /\ [][NextManifestJob]_vars

----------------------------------------------------------------------------
\* A caller of the storage service, as in tests/test_services/test_storage.py

MaxClientKeys == 2      \* ids and paths the caller uses

\* the integer value of a document field
PyInt(n) == <<"int", n>>

\* json.dumps of a document with string keys whose values are strings,
\* integers and None: an object with a string, a number or null per key
JsonDumpsValue(x) ==
    IF x[1] = "str" THEN <<"string", x[2]>>
    ELSE IF x[1] = "int" THEN <<"number", x[2]>>
    ELSE <<"null", "">>

JsonDumps(metadata) == <<"object", [k \in DOMAIN metadata[2] |-> JsonDumpsValue(metadata[2][k])]>>

\* json.loads of that text
JsonLoadsValue(j) ==
    IF j[1] = "string" THEN PyStr(j[2])
    ELSE IF j[1] = "number" THEN PyInt(j[2])
    ELSE PyNone

JsonLoads(metadata_json) == PyDict([k \in DOMAIN metadata_json[2] |-> JsonLoadsValue(metadata_json[2][k])])

\* LocalService.get_metadata: None when metadata/{v}.json does not exist,
\* else json.loads of the text of the file, which is the json.dumps of the
\* document save_metadata was given; m holds that document
LocalService_get_metadata(m, v) ==
    IF v \in DOMAIN m THEN JsonLoads(JsonDumps(m[v])) ELSE PyNone

\* what a call gave: the name of the exception it raised or "ok", and the
\* value it returned
Returned(document) == [error |-> "ok", value |-> document]
Raised(error) == [error |-> error, value |-> PyNone]

\* a get_video_metadata that returns None for a missing document
GetVideoMetadataOrNone(m, v) == Returned(LocalService_get_metadata(m, v))

\* StorageService.get_video_metadata: VideoNotFoundError when the backend
\* gives nothing
StorageService_get_video_metadata(m, v) ==
    LET metadata == LocalService_get_metadata(m, v)
    IN  IF ~Truthy(metadata) THEN Raised("VideoNotFoundError") ELSE Returned(metadata)

\* LocalService.get_file: StorageError when the file does not exist, else a
\* stream over the bytes read in binary mode; the facade passes it through
\* and the caller reads the stream
StorageService_get_file_read(b, p) ==
    IF FileExists(b, p) THEN [error |-> "ok", value |-> b[p]]
    ELSE [error |-> "StorageError", value |-> <<>>]

\* LocalService.delete_file: a missing file is a success; the facade
\* passes it through
StorageService_delete_file(b, p) == Drop(b, {p})

\* the ids and the paths of the caller, and the path of the document of an id
ClientIds == 1..MaxClientKeys
ClientPaths == {<<k, "file", 0>> : k \in ClientIds}
MetadataPath(v) == <<v, "metadata", 0>>

\* the documents the caller saves: records as the callers of save_metadata
\* build them, with string, integer and None fields
ClientDocuments ==
    {PyDict([id |-> PyStr("video"), status |-> PyStr(st), error |-> e, chunks_received |-> PyInt(n)]) :
        st \in {"pending", "ready"}, e \in {PyNone, PyStr("failed")}, n \in {0, MaxChunks}}

\* the contents the caller saves
ClientContents == {<<>>} \cup Payloads \cup {<<0, MaxByte>>}

\* the caller made a call on a key and got a result
Called(op, key, error, document, content) ==
    [client EXCEPT !.op = op, !.key = key, !.result = error,
                   !.document = document, !.content = content]

ClientSaveMetadata ==
    \E v \in ClientIds, doc \in ClientDocuments :
        /\ meta' = StorageService_save_metadata(meta, v, doc)
        /\ client' = [Called("save_metadata", MetadataPath(v), "ok", PyNone, <<>>)
                         EXCEPT !.docs = Put(@, v, doc)]
        /\ UNCHANGED <<blobs, dirs, issued, events, uploads, runs, cancels, finals, janitor>>

ClientGetVideoMetadata ==
    \E v \in ClientIds :
        LET got == StorageService_get_video_metadata(meta, v)
        IN  /\ client' = Called("get_video_metadata", MetadataPath(v), got.error, got.value, <<>>)
            /\ UNCHANGED <<meta, blobs, dirs, issued, events, uploads, runs, cancels, finals, janitor>>

ClientDeleteMetadata ==
    \E v \in ClientIds :
        /\ meta' = StorageService_delete_metadata(meta, {v})
        /\ client' = [Called("delete_metadata", MetadataPath(v), "ok", PyNone, <<>>)
                         EXCEPT !.docs = Drop(@, {v})]
        /\ UNCHANGED <<blobs, dirs, issued, events, uploads, runs, cancels, finals, janitor>>

ClientSaveFile ==
    \E p \in ClientPaths, content \in ClientContents :
        /\ blobs' = StorageService_save_file(blobs, p, content)
        /\ dirs' = dirs \cup {p[1]}
        /\ client' = [Called("save_file", p, "ok", PyNone, <<>>)
                         EXCEPT !.files = Put(@, p, content)]
        /\ UNCHANGED <<meta, issued, events, uploads, runs, cancels, finals, janitor>>

ClientGetFile ==
    \E p \in ClientPaths :
        LET got == StorageService_get_file_read(blobs, p)
        IN  /\ client' = Called("get_file", p, got.error, PyNone, got.value)
            /\ UNCHANGED <<meta, blobs, dirs, issued, events, uploads, runs, cancels, finals, janitor>>

ClientDeleteFile ==
    \E p \in ClientPaths :
        /\ blobs' = StorageService_delete_file(blobs, p)
        /\ client' = [Called("delete_file", p, "ok", PyNone, <<>>)
                         EXCEPT !.files = Drop(@, {p})]
        /\ UNCHANGED <<meta, dirs, issued, events, uploads, runs, cancels, finals, janitor>>

\* the calls on documents
NextStorageMetadata ==
    \/ ClientSaveMetadata
    \/ ClientGetVideoMetadata
    \/ ClientDeleteMetadata

SpecStorageMetadata == Init /\ [][NextStorageMetadata]_vars

\* the calls on files
NextStorageFiles ==
    \/ ClientSaveFile
    \/ ClientGetFile
    \/ ClientDeleteFile

SpecStorageFiles == Init /\ [][NextStorageFiles]_vars

----------------------------------------------------------------------------
\* The cleanup job beside a process_video task

\* an uploaded video whose process_video task was queued
InitStall ==
    \E v \in VideoIds :
        /\ meta = SaveMetadata(<<>>, v,
                      MarkUploaded([NewMetadata EXCEPT !.chunks_received = 1, !.total_chunks = 1,
                                                       !.upload_progress = 100]))
        /\ blobs = SaveFile(SaveFile(<<>>, ChunkPath(v, 0), <<0>>), OutputPath(v), <<0>>)
        /\ dirs = {v}
        /\ issued = {v}
        /\ events = {}
        /\ uploads = <<>>
        /\ runs = <<NewRun(v)>>
        /\ cancels = <<>>
        /\ finals = <<>>
        /\ janitor = JanitorIdle
        /\ client = ClientIdle

\* the task runs, time passes, and the cleanup job runs again and again
NextStall ==
    \/ ProcessVideo
    \/ Tick
    \/ Janitor

SpecStall == InitStall /\ [][NextStall]_vars

----------------------------------------------------------------------------
\* Properties

\* position of a status on the path pending, uploading, uploaded, processing, ready|error
Rank(st) ==
    CASE st = "pending" -> 0
      [] st = "uploading" -> 1
      [] st = "uploaded" -> 2
      [] st = "processing" -> 3
      [] OTHER -> 4

\* all of chunk_0 .. chunk_{n-1} of video v are stored in b
AllChunksStored(b, v, n) == \A i \in 0..(n - 1) : FileExists(b, ChunkPath(v, i))

\* the upload_chunk call at position s returns in this step
UploadReturns(s) == uploads[s].pc = "meta" /\ uploads' = Remove(uploads, s)

\* the step is the RetryWrite of a retry_processing call on v
RetryStep(v) ==
    \E r \in DOMAIN runs :
        runs[r].pc = "retry" /\ runs[r].vid = v /\ Len(runs') = Len(runs) /\ runs'[r].pc = "read"

\* C1: a record's status only moves forward along pending, uploading,
\* uploaded, processing, ready|error; nothing moves it out of ready, and
\* only retry_processing moves it out of error (to pending).
C1_StatusFollowsDag ==
    [][\A v \in DOMAIN meta \cap DOMAIN meta' :
          meta'[v].status # meta[v].status =>
              \/ /\ meta[v].status \notin {"ready", "error"}
                 /\ Rank(meta[v].status) < Rank(meta'[v].status)
              \/ /\ meta[v].status = "error"
                 /\ meta'[v].status = "pending"
                 /\ RetryStep(v)]_vars

\* C2: chunks_received never exceeds total_chunks and, when no upload_chunk
\* call on the id is in flight, equals the number of distinct chunk indices
\* received (the chunk files stored).
C2_ChunksReceivedCountsDistinct ==
    \A v \in DOMAIN meta :
        /\ meta[v].chunks_received <= meta[v].total_chunks
        /\ (\A s \in DOMAIN uploads : uploads[s].vid # v)
              => meta[v].chunks_received = Cardinality(UnderSub(v, "chunk"))

\* C3: when upload_chunk calls with different chunk indices have interleaved
\* and all of them have finished, chunks_received equals the number of
\* chunks stored.
C3_NoLostUpdate ==
    \A v \in DOMAIN meta :
        (\A s \in DOMAIN uploads : uploads[s].vid # v)
            => meta[v].chunks_received = Cardinality(UnderSub(v, "chunk"))

\* C4: when an upload_chunk call returns and all total_chunks chunks are
\* stored, the record has status uploaded and its output_path set.
C4_FinalizedWithLastChunk ==
    [][\A s \in DOMAIN uploads :
          (UploadReturns(s) /\ AllChunksStored(blobs', uploads[s].vid, uploads[s].total))
              => /\ uploads[s].vid \in DOMAIN meta'
                 /\ meta'[uploads[s].vid].status = "uploaded"
                 /\ meta'[uploads[s].vid].output_path = "source"]_vars

\* C5: a process_video task writes status processing (and goes on to stage,
\* probe and transcode) only when the status it read is uploaded.
C5_ProcessOnlyUploaded ==
    [][\A r \in DOMAIN runs :
          (runs[r].pc = "mark" /\ Len(runs') = Len(runs) /\ runs'[r].pc = "stage")
              => runs[r].md.status = "uploaded"]_vars

\* the process_video tasks in flight for video v
RunsOf(v) == {r \in DOMAIN runs : runs[r].vid = v}

\* C6: the upload endpoint queues process_video for an id only if no task
\* for the id is in flight and the record has not entered processing yet;
\* two tasks for one id are never in flight together.
C6_ProcessingStartedOnce ==
    [][/\ \A v \in issued : Cardinality({r \in DOMAIN runs' : runs'[r].vid = v}) <= 1
       /\ \A s \in DOMAIN uploads :
             (UploadReturns(s) /\ Len(runs') > Len(runs))
                 => /\ RunsOf(uploads[s].vid) = {}
                    /\ uploads[s].vid \in DOMAIN meta
                    /\ meta[uploads[s].vid].status \notin {"processing", "ready", "error"}]_vars

\* the steps of process_video from staging the source to the ready write,
\* and the step that follows each
InnerSteps == {"stage", "probe", "thumbs", "transcode", "manifests", "ready"}
StepAfter(pc) ==
    CASE pc = "stage" -> "probe"
      [] pc = "probe" -> "thumbs"
      [] pc = "thumbs" -> "transcode"
      [] pc = "transcode" -> "manifests"
      [] pc = "manifests" -> "ready"
      [] OTHER -> "notify"

C8_NoOutputWhenChunkMissing ==
    [][\A f \in DOMAIN finals :
          (/\ finals[f].pc = "combine"
           /\ finals' # finals
           /\ CombineRaises(blobs, finals[f].vid, finals[f].md.total_chunks)
           /\ ~FileExists(blobs, OutputPath(finals[f].vid)))
              => /\ finals' = Remove(finals, f)
                 /\ ~FileExists(blobs', OutputPath(finals[f].vid))]_vars

RECURSIVE SumLen(_, _, _)
\* total length of chunk_0 .. chunk_{n-1}
SumLen(b, v, n) == IF n = 0 THEN 0 ELSE SumLen(b, v, n - 1) + Len(b[ChunkPath(v, n - 1)])

\* out is chunk_0 .. chunk_{n-1} one after the other: chunk_i occupies the
\* positions after the first SumLen(i) bytes
IsIndexOrderConcat(out, b, v, n) ==
    /\ Len(out) = SumLen(b, v, n)
    /\ \A i \in 0..(n - 1) :
          SubSeq(out, SumLen(b, v, i) + 1, SumLen(b, v, i + 1)) = b[ChunkPath(v, i)]

\* C9: when all chunks exist, the composed output is their concatenation in
\* numeric index order and its length is the sum of their lengths.
C9_ComposeInIndexOrder ==
    \A v \in DOMAIN meta :
        (FileExists(blobs, OutputPath(v)) /\ AllChunksStored(blobs, v, meta[v].total_chunks))
            => IsIndexOrderConcat(blobs[OutputPath(v)], blobs, v, meta[v].total_chunks)

\* a composed video of more than ten chunks in which chunk_10 and chunk_2 differ
C9_Witness ==
    \E v \in DOMAIN meta :
        /\ meta[v].total_chunks >= 11
        /\ meta[v].status = "uploaded"
        /\ AllChunksStored(blobs, v, meta[v].total_chunks)
        /\ FileExists(blobs, OutputPath(v))
        /\ blobs[ChunkPath(v, 10)] # blobs[ChunkPath(v, 2)]

\* C10: when a cancel_upload by the owner completes, the id has no metadata
\* document and no file is left under videos/{id}/.
C10_CancelRemovesEverything ==
    [][\A c \in DOMAIN cancels :
          (cancels[c].pc = "delete" /\ cancels[c].user = "owner" /\ cancels'[c].pc = "deleted")
              => /\ cancels[c].vid \notin DOMAIN meta'
                 /\ {p \in DOMAIN blobs' : p[1] = cancels[c].vid} = {}]_vars

\* the owner cancelled a video that had been processed to ready
C10_Witness ==
    \E c \in DOMAIN cancels :
        /\ cancels[c].pc = "deleted"
        /\ cancels[c].user = "owner"
        /\ ProcessedEvent(cancels[c].vid, "success") \in events
        /\ cancels[c].vid \notin DOMAIN meta
        /\ Under(cancels[c].vid) = {}
\* C12: every upload_chunk call that passed validation carries
\* 0 <= chunk_index < total_chunks and the total_chunks fixed for the video.
C12_OnlyValidChunksAccepted ==
    \A s \in DOMAIN uploads :
        /\ 0 <= uploads[s].idx
        /\ uploads[s].idx < uploads[s].total
        /\ uploads[s].vid \in DOMAIN meta
              => meta[uploads[s].vid].total_chunks \in {0, uploads[s].total}

\* C13: every upload_chunk call that passed the owner check was made by the
\* record's owner; a call without caller id is not let through.
C13_OnlyOwnerUploads ==
    \A s \in DOMAIN uploads : uploads[s].user = uploads[s].md.owner_id

\* C14: upload_progress = 100 exactly when chunks_received = total_chunks,
\* in every state of a record from initialize_upload on.
C14_ProgressFullIffAllReceived ==
    \A v \in DOMAIN meta :
        (meta[v].upload_progress = 100) <=> (meta[v].chunks_received = meta[v].total_chunks)

\* C14 as amended: once total_chunks is fixed (non-zero), upload_progress =
\* 100 exactly when chunks_received = total_chunks.
C14_ProgressFullIffAllReceivedOnceFixed ==
    \A v \in DOMAIN meta :
        meta[v].total_chunks # 0 =>
            ((meta[v].upload_progress = 100) <=> (meta[v].chunks_received = meta[v].total_chunks))

\* a record that received all of its two chunks
C14_Witness ==
    \E v \in DOMAIN meta :
        /\ meta[v].total_chunks = 2
        /\ meta[v].chunks_received = 2
        /\ meta[v].upload_progress = 100

\* C15: a record has its HLS and DASH URLs set exactly when its status is ready.
C15_UrlsIffReady ==
    \A v \in DOMAIN meta :
        (meta[v].hls_url = "set" /\ meta[v].dash_url = "set") <=> (meta[v].status = "ready")

\* C16: no video_processed event is handed to the bus for an id for which no
\* video_uploaded event was.
C16_UploadedBeforeProcessed ==
    \A v \in issued :
        (\E st \in {"success", "error"} : ProcessedEvent(v, st) \in events)
            => UploadedEvent(v) \in events
\* C11: once a cancel_upload has deleted a record and the calls and tasks on
\* its id have finished, the id has no metadata document and no file under
\* videos/{id}/.
C11_CancelIsFinal ==
    \A c \in DOMAIN cancels :
        LET v == cancels[c].vid IN
        (/\ cancels[c].pc = "deleted"
         /\ \A s \in DOMAIN uploads : uploads[s].vid # v
         /\ \A r \in DOMAIN runs : runs[r].vid # v
         /\ \A f \in DOMAIN finals : finals[f].vid # v)
            => /\ v \notin DOMAIN meta
               /\ Under(v) = {}

\* the step of a cleanup job in which stall recovery runs
StallRecoveryStep == janitor.pc = "stalled" /\ janitor'.pc = "orphans"

\* the files under videos/{v}/hls/ and videos/{v}/dash/ in a blob store
PartialOutputs(b, v) == {p \in DOMAIN b : p[1] = v /\ p[2] \in {"hls", "dash"}}

\* C17: a stall-recovery run changes every record that has status processing
\* and an updated_at older than now - stall_hours to status error with the
\* "stalled" reason, and deletes the hls/ and dash/ prefixes under its id
C17_StallRecoveryMarksStalled ==
    [][StallRecoveryStep =>
          \A v \in DOMAIN meta :
              meta[v].status = "processing" /\ meta[v].updated_at = "old"
                  => /\ v \in DOMAIN meta'
                     /\ meta'[v].status = "error"
                     /\ meta'[v].error = StalledMessage
                     /\ PartialOutputs(blobs', v) = {}]_vars

\* the step of a cleanup job in which the orphan sweep lists the
\* directories and deletes
SweepStep == janitor.pc \in {"orphans", "sweep"} /\ janitor'.pc = "idle"

\* the directories the sweep sets out to delete: the entries of videos/
\* whose id is not among the ids it listed
SweepTargets ==
    StorageService_list_directories(blobs, dirs)
        \ (IF janitor.pc = "sweep" THEN janitor.ids ELSE {})

\* C19: a failure while handling one record does not abort the sweep; when
\* delete_directory fails on one orphaned directory, the other orphaned
\* directories of the sweep are still deleted
C19_FailureDoesNotAbortSweep ==
    [][SweepStep /\ janitor'.failed # {} =>
          \A d \in SweepTargets \ janitor'.failed :
              d \notin ListDirectories(blobs', dirs')]_vars

\* C20: the orphan sweep deletes exactly the directories under videos/ whose
\* id has no metadata document, also when an upload is initialized while the
\* sweep runs: a sweep that met no failure has deleted a directory if and
\* only if its id has no document
C20_SweepDeletesExactlyOrphans ==
    [][SweepStep /\ janitor'.failed = {} =>
          \A d \in ListDirectories(blobs, dirs) :
              d \notin ListDirectories(blobs', dirs') <=> d \notin DOMAIN meta]_vars

\* C18: under fair scheduling of the orchestrator and periodic cleanup jobs,
\* every record that enters processing eventually reaches ready or error
C18_ProcessingEventuallyEnds ==
    \A v \in VideoIds :
        (v \in DOMAIN meta /\ meta[v].status = "processing")
            ~> (v \in DOMAIN meta /\ meta[v].status \in {"ready", "error"})

\* C21: whenever a video reaches status ready, its chunk scratch
\* videos/{id}/chunks/ is eventually deleted, by the processing path or by a
\* later cleanup job
C21_ChunksEventuallyDeleted ==
    \A v \in VideoIds :
        (v \in DOMAIN meta /\ meta[v].status = "ready") ~> (UnderSub(v, "chunk") = {})

\* the step is a retry_processing call on v that passed the status check
RetryAccepted(v) ==
    /\ Len(runs') = Len(runs) + 1
    /\ runs'[Len(runs')].pc = "retry"
    /\ runs'[Len(runs')].vid = v

StreamInfLines(content) ==
    LET IsStreamInf(line) == line.tag = "EXT-X-STREAM-INF"
    IN  SelectSeq(content, IsStreamInf)

\* a sequence of lines or adaptation sets is in ascending BANDWIDTH order
AscendingBandwidth(entries) ==
    \A i, j \in DOMAIN entries : i < j => entries[i].bandwidth <= entries[j].bandwidth

\* C23: every HLS master playlist that was generated and stored lists its
\* variants in ascending BANDWIDTH order, whatever the list of variant data
\* handed to the generator
C23_MasterPlaylistAscending ==
    \A v \in DOMAIN meta :
        HlsMasterPath(v) \in DOMAIN blobs =>
            AscendingBandwidth(StreamInfLines(blobs[HlsMasterPath(v)]))

\* the qualities a master playlist names, in the order of the document:
\* the playlist names that follow the EXT-X-STREAM-INF lines
PlaylistQualities(content) ==
    LET IsUri(line) == line.tag = "URI"
        uris == SelectSeq(content, IsUri)
    IN  [i \in DOMAIN uris |-> uris[i].uri]

\* the qualities of the adaptation sets of an MPD, in the order of the document
MpdQualities(mpd) == [i \in DOMAIN mpd |-> mpd[i].id]

\* a sequence names every element of a set once and nothing else
ListsExactly(qs, S) ==
    /\ Len(qs) = Cardinality(S)
    /\ {qs[i] : i \in DOMAIN qs} = S

\* the ready videos whose task still holds the segments_info of the transcoder
ReadyRuns ==
    {r \in DOMAIN runs :
        /\ runs[r].vid \in DOMAIN meta
        /\ meta[runs[r].vid].status = "ready"
        /\ runs[r].segments_info # NoSegments}

\* C24: for a ready video the master playlist has one EXT-X-STREAM-INF entry
\* and the MPD one AdaptationSet for each quality the transcoder produced
\* segments for, none for another quality, and the adaptation sets are in
\* the quality order of the HLS variants
C24_ManifestsMatchSegments ==
    \A r \in ReadyRuns :
        LET v == runs[r].vid
            master == blobs[HlsMasterPath(v)]
            mpd == blobs[DashMpdPath(v)]
        IN  /\ Len(StreamInfLines(master)) = Len(PlaylistQualities(master))
            /\ ListsExactly(PlaylistQualities(master), DOMAIN runs[r].segments_info.hls_segments)
            /\ ListsExactly(MpdQualities(mpd), DOMAIN runs[r].segments_info.dash_segments)
            /\ MpdQualities(mpd) = PlaylistQualities(master)

\* a ready video whose playlist and MPD list the five qualities
C24_Witness ==
    \E r \in ReadyRuns :
        /\ Len(StreamInfLines(blobs[HlsMasterPath(runs[r].vid)])) = Len(QualityProfiles)
        /\ Len(blobs[DashMpdPath(runs[r].vid)]) = Len(QualityProfiles)

\* a segment list of the transcoder: numbered 1, 2, ... without a gap, the
\* first start is 0, every later start is the start before it plus the
\* duration before it, and the starts rise strictly
SegmentListWellFormed(segments) ==
    /\ \A i \in DOMAIN segments : segments[i].index = i
    /\ segments # <<>> => segments[1].start = 0
    /\ \A i \in DOMAIN segments :
          i + 1 \in DOMAIN segments =>
              /\ segments[i + 1].start = segments[i].start + segments[i].duration
              /\ segments[i].start < segments[i + 1].start

\* the same for the S elements of an adaptation set, which are numbered by
\* their position from startNumber
TimelineWellFormed(set) ==
    /\ set.startNumber = 1
    /\ set.SegmentTimeline # <<>> => set.SegmentTimeline[1].t = 0
    /\ \A i \in DOMAIN set.SegmentTimeline :
          i + 1 \in DOMAIN set.SegmentTimeline =>
              /\ set.SegmentTimeline[i + 1].t = set.SegmentTimeline[i].t + set.SegmentTimeline[i].d
              /\ set.SegmentTimeline[i].t < set.SegmentTimeline[i + 1].t

\* the MPDs in storage that were generated
StoredMpds ==
    {blobs[DashMpdPath(v)] : v \in {w \in DOMAIN meta : DashMpdPath(w) \in DOMAIN blobs}}

PersistedReady ==
    {r \in DOMAIN runs :
        /\ runs[r].md.status = "ready"
        /\ runs[r].vid \in DOMAIN meta
        /\ meta[runs[r].vid].status = "ready"}

\* C27: once process_video has persisted status ready, whatever the backend
\* update, the user notification and the event publication do afterwards,
\* the record is not changed: it stays ready with its playback URLs
C27_ReadyRecordKept ==
    [][\A r \in PersistedReady :
          /\ runs[r].vid \in DOMAIN meta'
          /\ meta'[runs[r].vid] = meta[runs[r].vid]]_vars

\* C28: every blob the processing pipeline writes is stored under
\* videos/{id}/ where id is the id of the record a task is processing, and
\* the document of that record exists when the blob is written
C28_BlobsUnderProcessedRecord ==
    [][\A p \in DOMAIN blobs' \ DOMAIN blobs :
          \E r \in DOMAIN runs : p[1] = runs[r].vid /\ p[1] \in DOMAIN meta]_vars

\* the videos a process_video task is working on
InProcess == {runs[r].vid : r \in DOMAIN runs}

====
